---------------------------- MODULE Spec2Model ----------------------------
(***************************************************************************)
(* Model of src/sites/refresh_privacy_badges.py: the privacy-rating        *)
(* enrichment script (get_site_names, clean, get_rating and the main       *)
(* loop that accumulates privacy_ratings and writes privacy_ratings.json). *)
(*                                                                         *)
(* Python strings are modelled as sequences of one-character strings, so   *)
(* that str.replace and str.lower are computed character by character.     *)
(***************************************************************************)
EXTENDS Integers, Sequences, FiniteSets, TLC

VARIABLES
    sherlock,         \* json.loads of SHERLOCK_JSON: ordered list of [name, meta]
    trace,            \* json.loads of TRACE_JSON
    pc,               \* the statement the script is at (or ended in)
    idx,              \* number of keys of the current catalog already visited
    sites,            \* the list built by get_site_names
    i,                \* number of entries the main loop has completed
    r,                \* get_rating's local r (last parsed response)
    rating,           \* the value get_rating returned (main's local rating)
    privacy_ratings,  \* the accumulator dict of the main script
    file,             \* contents of privacy_ratings.json
    writes,           \* number of f.write calls performed on the output file
    exc,              \* what ended the process, "none" while it runs
    queries,          \* log of the run: the requests.get calls issued, in order
    returned,         \* log of the run: the value get_rating returned per entry
    cx,               \* clean: the argument of the first call
    cout              \* clean: results of clean(cx) and clean(clean(cx))

vars == <<sherlock, trace, pc, idx, sites, i, r, rating, privacy_ratings,
          file, writes, exc, queries, returned, cx, cout>>

pipeVars == <<sherlock, trace, pc, idx, sites, i, r, rating, privacy_ratings,
              file, writes, exc, queries, returned>>

-----------------------------------------------------------------------------
(* Bounds *)

\* longest catalog (number of keys of one input JSON object)
MaxCat == 2

\* most hits in one response of the rating service
MaxHits == 2

\* most fragments concatenated into an argument of clean
MaxFrag == 3

-----------------------------------------------------------------------------
(* Strings *)

HTTP == <<"h", "t", "t", "p", ":", "/", "/">>

HTTPS == <<"h", "t", "t", "p", "s", ":", "/", "/">>

WWW == <<"w", "w", "w", ".">>

UpperChars == <<"A", "B", "C", "D", "E", "F", "G", "H", "I", "J", "K", "L", "M",
                "N", "O", "P", "Q", "R", "S", "T", "U", "V", "W", "X", "Y", "Z">>

LowerChars == <<"a", "b", "c", "d", "e", "f", "g", "h", "i", "j", "k", "l", "m",
                "n", "o", "p", "q", "r", "s", "t", "u", "v", "w", "x", "y", "z">>

\* one character of str.lower()
LowerChar(c) ==
    IF \E k \in 1..Len(UpperChars) : UpperChars[k] = c
    THEN LowerChars[CHOOSE k \in 1..Len(UpperChars) : UpperChars[k] = c]
    ELSE c

\* str.lower()
Lower(s) == [k \in 1..Len(s) |-> LowerChar(s[k])]

\* str.replace(old, ""): every non-overlapping occurrence of old, found from
\* the left, is removed; the scan resumes after each removed occurrence.
RECURSIVE Remove(_, _)
Remove(s, old) ==
    IF Len(s) < Len(old) THEN s
    ELSE IF SubSeq(s, 1, Len(old)) = old
         THEN Remove(SubSeq(s, Len(old) + 1, Len(s)), old)
         ELSE <<s[1]>> \o Remove(Tail(s), old)

\* clean(string)
clean(string) ==
    Lower(Remove(Remove(Remove(Remove(string, HTTP), HTTPS), WWW), <<"/">>))

-----------------------------------------------------------------------------
(* JSON values of the catalogs *)

ratings == {"A", "B", "C", "D", "E"}

JStr(s) == [t |-> "str", v |-> s]

JNum == [t |-> "num", v |-> <<"4", "2">>]

JNull == [t |-> "null", v |-> <<>>]

\* the site names the input catalogs are drawn from, in document order
Names == << <<"x">>, <<"y">>, <<"z">> >>

\* urlMain of a well-formed entry: each upstream catalog has its own URL style
UrlOf(cat, name) ==
    IF cat = "sherlock"
    THEN HTTPS \o WWW \o name \o <<"/">>
    ELSE HTTP \o <<"F">> \o name

\* kinds of metadata a catalog can hold for a site
MetaKinds == {"good", "nonstring", "nokey", "scalar"}

\* the metadata value: an object with or without the key urlMain, or a value
\* that is no object at all (a JSON string, number, list or null)
MkMeta(kind, cat, name) ==
    CASE kind = "good"      -> [object |-> TRUE, has |-> TRUE, urlMain |-> JStr(UrlOf(cat, name))]
      [] kind = "nonstring" -> [object |-> TRUE, has |-> TRUE, urlMain |-> JNum]
      [] kind = "nokey"     -> [object |-> TRUE, has |-> FALSE, urlMain |-> JNull]
      [] OTHER              -> [object |-> FALSE, has |-> FALSE, urlMain |-> JNull]

RECURSIVE Ascending(_)
Ascending(I) ==
    IF I = {} THEN <<>>
    ELSE LET m == CHOOSE a \in I : \A b \in I : a <= b
         IN  <<m>> \o Ascending(I \ {m})

\* the catalogs with at most n keys
Catalogs(cat, n) ==
    UNION { { LET order == Ascending(I)
              IN  [k \in 1..Len(order) |->
                     [name |-> Names[order[k]],
                      meta |-> MkMeta(m[order[k]], cat, Names[order[k]])]]
              : m \in [I -> MetaKinds] }
            : I \in {J \in SUBSET (1..Len(Names)) : Cardinality(J) <= n} }

-----------------------------------------------------------------------------
(* get_site_names *)

\* Python's ==  between the key (a str) and an element of sites (a list
\* [name, url]): objects of different types never compare equal
StrEqList(site, elem) == FALSE

\* site not in sites
NotIn(site, lst) == \A k \in 1..Len(lst) : ~StrEqList(site, lst[k])

\* cat[site]["urlMain"] raises (TypeError or KeyError)
Raises(meta) == ~meta.object \/ ~meta.has

\* the iteration with a lenient read (meta.get("urlMain") on anything): an
\* entry without urlMain is appended with a null URL instead of being skipped
ScanEntryLenient(e, lst) ==
    IF NotIn(e.name, lst)
    THEN Append(lst, <<e.name, e.meta.urlMain>>)
    ELSE lst

\* one iteration of the for loop over a catalog: the try block and its except
ScanEntry(e, lst) ==
    IF NotIn(e.name, lst)
    THEN IF Raises(e.meta) THEN lst
         ELSE Append(lst, <<e.name, e.meta.urlMain>>)
    ELSE lst

ScanSherlock ==
    /\ pc = "scan_sherlock"
    /\ exc = "none"
    /\ idx < Len(sherlock)
    /\ sites' = ScanEntry(sherlock[idx + 1], sites)
    /\ idx' = idx + 1
    /\ UNCHANGED <<sherlock, trace, pc, i, r, rating, privacy_ratings, file,
                   writes, exc, queries, returned, cx, cout>>

EndSherlock ==
    /\ pc = "scan_sherlock"
    /\ exc = "none"
    /\ idx = Len(sherlock)
    /\ pc' = "scan_trace"
    /\ idx' = 0
    /\ UNCHANGED <<sherlock, trace, sites, i, r, rating, privacy_ratings, file,
                   writes, exc, queries, returned, cx, cout>>

ScanTrace ==
    /\ pc = "scan_trace"
    /\ exc = "none"
    /\ idx < Len(trace)
    /\ sites' = ScanEntry(trace[idx + 1], sites)
    /\ idx' = idx + 1
    /\ UNCHANGED <<sherlock, trace, pc, i, r, rating, privacy_ratings, file,
                   writes, exc, queries, returned, cx, cout>>

EndTrace ==
    /\ pc = "scan_trace"
    /\ exc = "none"
    /\ idx = Len(trace)
    /\ pc' = "loop"
    /\ idx' = 0
    /\ UNCHANGED <<sherlock, trace, sites, i, r, rating, privacy_ratings, file,
                   writes, exc, queries, returned, cx, cout>>

-----------------------------------------------------------------------------
(* The rating service *)

\* sequences over S of length at most n
SeqsUpTo(S, n) == UNION { [1..k -> S] : k \in 0..n }

\* what one requests.get(...).json() can produce: the request raises
\* ("neterr"), the body is no JSON ("nonjson"), the JSON lacks the path
\* parameters/services/hits ("nokey"), or it holds a list of hits, each with
\* its _source rating.  rs: the ratings the service uses, h: the most hits.
Responses(rs, h) ==
    { [st |-> f, hits |-> <<>>] : f \in {"neterr", "nonjson", "nokey"} }
        \cup { [st |-> "json", hits |-> hs] : hs \in SeqsUpTo(rs, h) }

\* r before its first assignment
Unbound == [st |-> "unbound", hits |-> <<>>]

\* requests.get(...).json() returns a value (r is assigned)
Parsed(resp) == resp.st \in {"nokey", "json"}

\* r["parameters"]["services"]["hits"][0] raises (KeyError, IndexError)
HitRaises(resp) == resp.st # "json" \/ Len(resp.hits) = 0

\* r["parameters"]["services"]["hits"][0]["_source"]["rating"]
HitRating(resp) == resp.hits[1]

\* the membership test left out: any rating of the first hit is taken
AcceptedAny(rt) == TRUE

\* rating in ratings
Accepted(rt) == rt \in ratings

\* a try block of get_rating reaches its return statement: no exception
\* was raised and the rating is in ratings
Returns(resp) == Parsed(resp) /\ ~HitRaises(resp) /\ Accepted(HitRating(resp))

\* what a try block yields: the rating it returns, or "none" when it is left
\* without a return
Yield(resp) == IF Returns(resp) THEN HitRating(resp) ELSE "none"

-----------------------------------------------------------------------------
(* The end of the process *)

\* the process ends with e (an uncaught exception, or a kill): pc stays at
\* the statement it ended in, everything held in memory is gone, the files
\* stay as they are
Dies(e) ==
    /\ exc' = e
    /\ idx' = 0
    /\ sites' = <<>>
    /\ i' = 0
    /\ r' = Unbound
    /\ rating' = "unset"
    /\ privacy_ratings' = {}
    /\ queries' = <<>>
    /\ returned' = <<>>
    /\ UNCHANGED <<sherlock, trace, pc, file, writes, cx, cout>>

\* the operator kills the process
Terminate ==
    /\ exc = "none"
    /\ pc # "done"
    /\ Dies("killed")

-----------------------------------------------------------------------------
(* get_rating *)

\* for i, site in enumerate(sites): the call get_rating(site)
BeginRating ==
    /\ pc = "loop"
    /\ exc = "none"
    /\ i < Len(sites)
    /\ pc' = "name"
    /\ UNCHANGED <<sherlock, trace, idx, sites, i, r, rating, privacy_ratings,
                   file, writes, exc, queries, returned, cx, cout>>

\* lines 48-56 with the return of line 54 dropped: the resolver goes on to
\* the URL lookup whatever the name lookup found
NameLookupFallThrough(resp) ==
    /\ pc = "name"
    /\ exc = "none"
    /\ queries' = Append(queries, [entry |-> i + 1, kind |-> "name",
                                   query |-> clean(sites[i + 1][1]),
                                   yield |-> Yield(resp)])
    /\ r' = IF Parsed(resp) THEN resp ELSE r
    /\ pc' = "url"
    /\ UNCHANGED <<sherlock, trace, idx, sites, i, rating, privacy_ratings, file,
                   writes, exc, returned, cx, cout>>

\* lines 48-56: the lookup by clean(site[0])
NameLookup(resp) ==
    /\ pc = "name"
    /\ exc = "none"
    /\ queries' = Append(queries, [entry |-> i + 1, kind |-> "name",
                                   query |-> clean(sites[i + 1][1]),
                                   yield |-> Yield(resp)])
    /\ r' = IF Parsed(resp) THEN resp ELSE r
    /\ IF Returns(resp)
       THEN pc' = "ret" /\ rating' = HitRating(resp)
       ELSE pc' = "url" /\ rating' = rating
    /\ UNCHANGED <<sherlock, trace, idx, sites, i, privacy_ratings, file,
                   writes, exc, returned, cx, cout>>

\* lines 59-70 with a retry: a URL lookup that yields nothing is issued again
UrlLookupRetry(resp) ==
    /\ pc = "url"
    /\ exc = "none"
    /\ LET u == sites[i + 1][2]
       IN  IF u.t # "str"
           THEN Dies("AttributeError")
           ELSE /\ queries' = Append(queries, [entry |-> i + 1, kind |-> "url",
                                               query |-> clean(u.v),
                                               yield |-> Yield(resp)])
                /\ r' = IF Parsed(resp) THEN resp ELSE r
                /\ IF Returns(resp)
                   THEN pc' = "ret" /\ rating' = HitRating(resp)
                   ELSE pc' = "url" /\ rating' = rating
                /\ UNCHANGED <<sherlock, trace, idx, sites, i, privacy_ratings,
                               file, writes, exc, returned, cx, cout>>

\* lines 59-70: the lookup by clean(site[1]) and the final return "none";
\* clean is called outside the try block, and replace exists on str only
UrlLookup(resp) ==
    /\ pc = "url"
    /\ exc = "none"
    /\ LET u == sites[i + 1][2]
       IN  IF u.t # "str"
           THEN Dies("AttributeError")
           ELSE /\ queries' = Append(queries, [entry |-> i + 1, kind |-> "url",
                                               query |-> clean(u.v),
                                               yield |-> Yield(resp)])
                /\ r' = IF Parsed(resp) THEN resp ELSE r
                /\ rating' = Yield(resp)
                /\ pc' = "ret"
                /\ UNCHANGED <<sherlock, trace, idx, sites, i, privacy_ratings,
                               file, writes, exc, returned, cx, cout>>

-----------------------------------------------------------------------------
(* MAIN *)

\* d[k] = v on a dict held as a set of <<key, value>> pairs
DictSet(d, k, v) == {p \in d : p[1] # k} \cup {<<k, v>>}

Keys(d) == {p[1] : p \in d}

DictGet(d, k) == (CHOOSE p \in d : p[1] = k)[2]

\* lines 107-109 with the dump moved into the loop: the file is rewritten
\* after every entry
StoreRatingAndDump ==
    /\ pc = "ret"
    /\ exc = "none"
    /\ privacy_ratings' = DictSet(privacy_ratings, sites[i + 1][1],
                                  [privacyRating |-> rating])
    /\ returned' = Append(returned, rating)
    /\ i' = i + 1
    /\ r' = Unbound
    /\ pc' = "loop"
    /\ file' = [st |-> "written", doc |-> privacy_ratings']
    /\ writes' = writes + 1
    /\ UNCHANGED <<sherlock, trace, idx, sites, rating, exc, queries, cx, cout>>

\* lines 107-109: rating = get_rating(site) completes and is stored
StoreRating ==
    /\ pc = "ret"
    /\ exc = "none"
    /\ privacy_ratings' = DictSet(privacy_ratings, sites[i + 1][1],
                                  [privacyRating |-> rating])
    /\ returned' = Append(returned, rating)
    /\ i' = i + 1
    /\ r' = Unbound
    /\ pc' = "loop"
    /\ UNCHANGED <<sherlock, trace, idx, sites, rating, file, writes, exc,
                   queries, cx, cout>>

\* the for loop is exhausted
EndLoop ==
    /\ pc = "loop"
    /\ exc = "none"
    /\ i = Len(sites)
    /\ pc' = "open"
    /\ UNCHANGED <<sherlock, trace, idx, sites, i, r, rating, privacy_ratings,
                   file, writes, exc, queries, returned, cx, cout>>

\* the output file before the run, and once open(..., "w") has truncated it
Prior == [st |-> "prior", doc |-> {}]

Truncated == [st |-> "truncated", doc |-> {}]

\* line 113: open("privacy_ratings.json", "w") succeeds or raises OSError
OpenOutput(ok) ==
    /\ pc = "open"
    /\ exc = "none"
    /\ IF ok
       THEN /\ file' = Truncated
            /\ pc' = "write"
            /\ UNCHANGED <<sherlock, trace, idx, sites, i, r, rating,
                           privacy_ratings, writes, exc, queries, returned,
                           cx, cout>>
       ELSE Dies("OSError")

\* line 114: f.write(json.dumps(privacy_ratings, indent=5)); the document is
\* kept as the mapping it serialises
WriteOutput ==
    /\ pc = "write"
    /\ exc = "none"
    /\ file' = [st |-> "written", doc |-> privacy_ratings]
    /\ writes' = writes + 1
    /\ pc' = "done"
    /\ UNCHANGED <<sherlock, trace, idx, sites, i, r, rating, privacy_ratings,
                   exc, queries, returned, cx, cout>>

-----------------------------------------------------------------------------
(* Specifications *)

\* the script as it starts, on the catalogs shk and trc
Start(shk, trc) ==
    /\ sherlock = shk
    /\ trace = trc
    /\ pc = "scan_sherlock"
    /\ idx = 0
    /\ sites = <<>>
    /\ i = 0
    /\ r = Unbound
    /\ rating = "unset"
    /\ privacy_ratings = {}
    /\ file = Prior
    /\ writes = 0
    /\ exc = "none"
    /\ queries = <<>>
    /\ returned = <<>>

\* the whole run, on catalogs of up to MaxCat keys
Init ==
    /\ \E shk \in Catalogs("sherlock", MaxCat), trc \in Catalogs("trace", MaxCat) :
          Start(shk, trc)
    /\ cx = <<>>
    /\ cout = <<>>

Steps ==
    \/ ScanSherlock \/ EndSherlock \/ ScanTrace \/ EndTrace
    \/ BeginRating \/ StoreRating \/ EndLoop
    \/ \E ok \in BOOLEAN : OpenOutput(ok)
    \/ WriteOutput
    \/ Terminate

\* in the whole run the service answers with at most one hit, rated "A"
\* (accepted) or "Z" (not in ratings), or fails in one of the three ways
Next ==
    \/ Steps
    \/ \E resp \in Responses({"A", "Z"}, 1) : NameLookup(resp)
    \/ \E resp \in Responses({"A", "Z"}, 1) : UrlLookup(resp)

Spec == Init /\ [][Next]_vars

\* the resolver on catalogs of at most one key each, against every response
\* of up to MaxHits hits
InitResolver ==
    /\ \E shk \in Catalogs("sherlock", 1), trc \in Catalogs("trace", 1) :
          Start(shk, trc)
    /\ cx = <<>>
    /\ cout = <<>>

\* the service answers with up to MaxHits hits rated "B", "D" (accepted) or
\* "Z" (not in ratings), or fails in one of the three ways
NextResolver ==
    \/ Steps
    \/ \E resp \in Responses({"B", "D", "Z"}, MaxHits) : NameLookup(resp)
    \/ \E resp \in Responses({"B", "D", "Z"}, MaxHits) : UrlLookup(resp)

SpecResolver == InitResolver /\ [][NextResolver]_vars

-----------------------------------------------------------------------------
(* clean on its own *)

Fragments ==
    {HTTP, HTTPS, WWW, <<"W", "W", "W", ".">>, <<"/">>, <<"w">>, <<".">>,
     <<"a">>, <<"F", "o", "o", ".", "o", "r", "g">>}

RECURSIVE Flatten(_)
Flatten(fs) == IF fs = <<>> THEN <<>> ELSE Head(fs) \o Flatten(Tail(fs))

Example1 ==
    HTTPS \o WWW \o <<"E", "x", "a", "m", "p", "l", "e", ".", "c", "o", "m", "/">>

\* the arguments clean is applied to
CleanInputs == {Flatten(fs) : fs \in SeqsUpTo(Fragments, MaxFrag)} \cup {Example1}

\* y = clean(x), then z = clean(y)
ApplyClean ==
    /\ Len(cout) < 2
    /\ cout' = Append(cout, clean(IF cout = <<>> THEN cx ELSE cout[Len(cout)]))
    /\ UNCHANGED <<pipeVars, cx>>

InitClean ==
    /\ Start(<<>>, <<>>)
    /\ cx \in CleanInputs
    /\ cout = <<>>

NextClean == ApplyClean

SpecClean == InitClean /\ [][NextClean]_vars

-----------------------------------------------------------------------------
(* Properties *)

\* get_site_names has returned
Aggregated == pc \notin {"scan_sherlock", "scan_trace"} /\ exc = "none"

HasUrlMain(e) == e.meta.object /\ e.meta.has

\* the (name, urlMain) pairs of the entries of a catalog that carry urlMain
Pairs(cat) ==
    LET wf == SelectSeq(cat, HasUrlMain)
    IN  [k \in 1..Len(wf) |-> <<wf[k].name, wf[k].meta.urlMain>>]

NamesIn(lst) == {lst[k][1] : k \in 1..Len(lst)}

FreshInTrace(p) == p[1] \notin NamesIn(Pairs(sherlock))

\* C1: the list get_site_names returns holds each site name once, in
\* first-seen order: the entries of the first catalog in its order, then the
\* entries of the second catalog whose name the first did not supply, so a
\* name of both catalogs keeps the first catalog's urlMain.
C1_DedupFirstSeen ==
    Aggregated => sites = Pairs(sherlock) \o SelectSeq(Pairs(trace), FreshInTrace)

\* C2: clean is idempotent: clean(clean(x)) = clean(x) for every string x.
C2_CleanIdempotent == Len(cout) = 2 => cout[2] = cout[1]

\* the entry the resolver is working on, and the queries issued for entry e
QueriesOf(e) == SelectSeq(queries, LAMBDA q : q.entry = e)

\* C3: get_rating never lets an exception escape, whatever JSON value the
\* entry's urlMain holds, and it returns "none" whenever neither lookup
\* yields a valid rating.
C3_NoExceptionEscapes ==
    /\ exc # "AttributeError"
    /\ pc = "ret" /\ exc = "none" /\ (\A k \in 1..Len(QueriesOf(i + 1)) : QueriesOf(i + 1)[k].yield = "none")
          => rating = "none"

\* C4: when the name lookup yields a rating of ratings, get_rating returns
\* that rating and the URL lookup has no say (it is not even issued); the
\* result of the URL lookup is returned only when the name lookup yielded
\* no valid rating.
C4_NamePrecedence ==
    pc = "ret" /\ exc = "none" =>
        LET qs == QueriesOf(i + 1)
        IN  /\ Len(qs) >= 1
            /\ qs[1].kind = "name"
            /\ qs[1].query = clean(sites[i + 1][1])
            /\ qs[1].yield \in ratings => (rating = qs[1].yield /\ Len(qs) = 1)
            /\ Len(qs) > 1 =>
                  /\ qs[1].yield = "none"
                  /\ qs[2].kind = "url"
                  /\ rating = qs[2].yield

\* the name lookup found "B" and get_rating returned "B" at once
C4_Witness ==
    /\ pc = "ret"
    /\ exc = "none"
    /\ exc = "none"
    /\ rating = "B"
    /\ Len(QueriesOf(i + 1)) = 1
    /\ QueriesOf(i + 1)[1].yield = "B"
    /\ sites[i + 1][2].t = "str"

RatingResult == ratings \cup {"none"}

\* C5: a lookup is accepted only when the rating of the first hit of its
\* response is in ratings; a value outside the set is never returned, and
\* every value get_rating returns and every privacyRating stored or written
\* is in ratings or is "none".
C5_ClosedSet ==
    /\ pc = "ret" /\ exc = "none" => rating \in RatingResult
    /\ pc = "ret" /\ exc = "none" /\ rating # "none" =>
          r.st = "json" /\ Len(r.hits) >= 1 /\ r.hits[1] = rating
    /\ pc = "ret" /\ exc = "none" /\ r.st = "json" /\ Len(r.hits) >= 1 /\ r.hits[1] \notin ratings =>
          rating = "none"
    /\ \A p \in privacy_ratings : p[2].privacyRating \in RatingResult
    /\ \A p \in file.doc : p[2].privacyRating \in RatingResult

\* the last response had "Z" first and a valid rating second: "none" returned
C5_Witness ==
    /\ pc = "ret"
    /\ exc = "none"
    /\ exc = "none"
    /\ r.st = "json"
    /\ Len(r.hits) = 2
    /\ r.hits[1] = "Z"
    /\ r.hits[2] \in ratings
    /\ rating = "none"
    /\ Len(QueriesOf(i + 1)) = 2

\* the main loop has run to its end
LoopDone == pc \in {"open", "write", "done"} /\ exc = "none"

FirstIndex(name) == CHOOSE k \in 1..Len(sites) :
                        /\ sites[k][1] = name
                        /\ \A j \in 1..(k - 1) : sites[j][1] # name

\* C6: after the loop the output mapping has one key per site name of the
\* aggregated list, and the value of a name is the rating the resolver
\* returned for the name's first-occurrence entry.
C6_OutputShape ==
    LoopDone =>
        /\ Keys(privacy_ratings) = NamesIn(sites)
        /\ Cardinality(privacy_ratings) = Cardinality(NamesIn(sites))
        /\ \A n \in NamesIn(sites) :
              DictGet(privacy_ratings, n) = [privacyRating |-> returned[FirstIndex(n)]]

\* C7: the output file is written at most once, and only when every entry
\* of the aggregated list has been resolved and accumulated; before the
\* loop has finished, and after a crash or a termination in mid-run, the
\* file is untouched.
C7_WriteOnceAtEnd ==
    /\ writes <= 1
    /\ writes = 1 <=> file.st = "written"
    /\ file.st = "written" => file.doc = privacy_ratings /\ pc \in {"done"}
    /\ pc \in {"scan_sherlock", "scan_trace", "loop", "name", "url", "ret", "open"}
          => file = Prior
    /\ i < Len(sites) => file = Prior
    /\ exc = "AttributeError" => file = Prior
    /\ file # Prior /\ exc = "none" =>
          /\ i = Len(sites)
          /\ Len(returned) = Len(sites)
          /\ Keys(privacy_ratings) = NamesIn(sites)

\* a run of two or more entries has written its file
C7_Witness ==
    /\ pc = "done"
    /\ exc = "none"
    /\ Len(sites) >= 2
    /\ writes = 1
    /\ file = [st |-> "written", doc |-> privacy_ratings]

\* C9: per entry at most two queries are issued, the name query first and
\* the URL query only after a name query that yielded nothing, neither one
\* repeated; the queries of an entry are issued only once the ratings of all
\* earlier entries are stored in the accumulator.
C9_LookupOrdering ==
    /\ Len(returned) = i
    /\ \A k \in 1..i : sites[k][1] \in Keys(privacy_ratings)
    /\ \A k \in 1..Len(queries) :
          /\ queries[k].entry \in 1..(i + 1)
          /\ queries[k].entry <= Len(sites)
          /\ k > 1 => queries[k - 1].entry <= queries[k].entry
    /\ \A e \in 1..Len(sites) :
          LET qs == QueriesOf(e)
          IN  /\ Len(qs) <= 2
              /\ Len(qs) >= 1 => qs[1].kind = "name"
              /\ Len(qs) = 2 => qs[2].kind = "url" /\ qs[1].yield = "none"
              /\ e <= i => Len(qs) >= 1

\* entry 1 took both lookups, its rating is stored, entry 2's name query is out
C9_Witness ==
    /\ Len(queries) = 3
    /\ queries[1].entry = 1 /\ queries[2].entry = 1 /\ queries[3].entry = 2
    /\ i = 1
    /\ privacy_ratings # {}

RECURSIVE Fold(_, _)
Fold(entries, lst) ==
    IF entries = <<>> THEN lst
    ELSE Fold(Tail(entries), ScanEntry(Head(entries), lst))

\* C10: an entry without urlMain, or whose metadata cannot be indexed, is
\* left out of the list without an exception and without ending the scan:
\* at every point of the scan and after it, the list is what the scan of
\* the catalogs without their malformed entries produces.
C10_SilentSkip ==
    /\ pc \in {"scan_sherlock", "scan_trace"} => exc \in {"none", "killed"}
    /\ pc = "scan_sherlock" /\ exc = "none" =>
          sites = Fold(SelectSeq(SubSeq(sherlock, 1, idx), HasUrlMain), <<>>)
    /\ pc = "scan_trace" /\ exc = "none" =>
          sites = Fold(SelectSeq(SubSeq(trace, 1, idx), HasUrlMain),
                       Fold(SelectSeq(sherlock, HasUrlMain), <<>>))
    /\ Aggregated =>
          sites = Fold(SelectSeq(trace, HasUrlMain),
                       Fold(SelectSeq(sherlock, HasUrlMain), <<>>))

\* both catalogs start with a malformed entry followed by a good one
C10_Witness ==
    /\ pc = "loop"
    /\ exc = "none"
    /\ exc = "none"
    /\ Len(sherlock) = 2 /\ Len(trace) = 2
    /\ ~sherlock[1].meta.object /\ HasUrlMain(sherlock[2])
    /\ ~trace[1].meta.has /\ trace[1].meta.object /\ HasUrlMain(trace[2])
    /\ Len(sites) = 2

\* the normaliser of the specification: the scheme prefix and a leading
\* "www." are stripped, every "/" is removed, the rest is lowercased
StripPrefix(s, pre) ==
    IF Len(s) >= Len(pre) /\ SubSeq(s, 1, Len(pre)) = pre
    THEN SubSeq(s, Len(pre) + 1, Len(s))
    ELSE s

Normalize(x) ==
    Lower(Remove(StripPrefix(StripPrefix(StripPrefix(x, HTTP), HTTPS), WWW), <<"/">>))

\* C8: clean(x) is x with the scheme prefixes http:// and https:// stripped,
\* a leading "www." (and only a leading one) stripped, every "/" removed,
\* and the result lowercased.
C8_CleanIsNormalize == Len(cout) >= 1 => cout[1] = Normalize(cx)

=============================================================================
